---- MODULE Spec2Model ----
(***************************************************************************)
(* Model of scam_detector.py: the lexical URL scorer (analyze_url), the    *)
(* content scorer (analyze_content) and the aggregator (main).             *)
(* Strings are TLA+ strings; characters are strings of length one.         *)
(***************************************************************************)
EXTENDS Integers, Sequences, FiniteSets, TLC

VARIABLES argv, pc, url, out, url_score, url_reasons, content_score,
          content_reasons, fetch_outcome, fetches, final_score, verdict,
          exit_code

vars == <<argv, pc, url, out, url_score, url_reasons, content_score,
          content_reasons, fetch_outcome, fetches, final_score, verdict,
          exit_code>>

(***************************************************************************)
(* Rule tables (module-level constants of the program).                    *)
(***************************************************************************)
KNOWN_SAFE_DOMAINS ==
    << "google.com", "facebook.com", "instagram.com", "apple.com",
       "microsoft.com", "amazon.com", "gov.tw", "edu.tw", "com.tw",
       "org.tw", "net.tw", "mvdis.gov.tw", "moi.gov.tw", "mof.gov.tw",
       "moe.gov.tw" >>

KNOWN_PHISHING_DOMAINS == << "mvdlstw.net" >>

SUSPICIOUS_TLDS ==
    { ".xyz", ".top", ".club", ".site", ".online", ".buzz", ".info", ".cn",
      ".ru" }

SUSPICIOUS_KEYWORDS ==
    << "login", "secure", "account", "update", "verify", "password",
       "signin", "banking", "confirm" >>

SCORE_WEIGHTS ==
    [ KNOWN_PHISHING |-> 100, IP_AS_DOMAIN |-> 30, NO_HTTPS |-> 25,
      SUSPICIOUS_TLD |-> 20, TYPOSQUATTING |-> 40, KEYWORD |-> 5,
      LONG_URL |-> 10, AT_SYMBOL |-> 20, PASSWORD_FIELD |-> 30 ]

(***************************************************************************)
(* String primitives (str methods and operators used by the program).      *)
(***************************************************************************)
CharAt(s, i) == SubSeq(s, i, i)

Slice(s, i) == SubSeq(s, i, Len(s))

StartsWith(s, p) == Len(p) <= Len(s) /\ SubSeq(s, 1, Len(p)) = p

EndsWith(s, p) ==
    Len(p) <= Len(s) /\ SubSeq(s, Len(s) - Len(p) + 1, Len(s)) = p

Contains(s, p) ==
    \E i \in 1..(Len(s) - Len(p) + 1) : SubSeq(s, i, i + Len(p) - 1) = p

Positions(s, c) == {i \in 1..Len(s) : CharAt(s, i) = c}

\* str.find(c) for a one-character c, as a 1-based index; 0 when absent
Find(s, c) ==
    LET at == Positions(s, c)
    IN  IF at = {} THEN 0 ELSE CHOOSE i \in at : \A j \in at : i <= j

\* str.rfind(c), 1-based; 0 when absent
RFind(s, c) ==
    LET at == Positions(s, c)
    IN  IF at = {} THEN 0 ELSE CHOOSE i \in at : \A j \in at : j <= i

UpperLetters == "ABCDEFGHIJKLMNOPQRSTUVWXYZ"

LowerLetters == "abcdefghijklmnopqrstuvwxyz"

Digits == "0123456789"

\* str.lower() on one ASCII character
LowerTable ==
    [ A |-> "a", B |-> "b", C |-> "c", D |-> "d", E |-> "e", F |-> "f",
      G |-> "g", H |-> "h", I |-> "i", J |-> "j", K |-> "k", L |-> "l",
      M |-> "m", N |-> "n", O |-> "o", P |-> "p", Q |-> "q", R |-> "r",
      S |-> "s", T |-> "t", U |-> "u", V |-> "v", W |-> "w", X |-> "x",
      Y |-> "y", Z |-> "z" ]

LowerChar(c) == IF c \in DOMAIN LowerTable THEN LowerTable[c] ELSE c

RECURSIVE Lower(_)
Lower(s) ==
    IF Len(s) <= 1 THEN LowerChar(s)
    ELSE LET half == Len(s) \div 2
         IN  Lower(SubSeq(s, 1, half)) \o Lower(Slice(s, half + 1))

IsDigit(c) == Contains(Digits, c)

IsAlpha(c) == Contains(UpperLetters, c) \/ Contains(LowerLetters, c)

\* domain.split('.')[-1]
LastLabel(s) == Slice(s, RFind(s, ".") + 1)

\* ".".join(domain.split('.')[-2:])
LastTwoLabels(s) ==
    LET k == RFind(s, ".")
    IN  IF k = 0 THEN s
        ELSE LET head == SubSeq(s, 1, k - 1)
             IN  Slice(s, RFind(head, ".") + 1)

(***************************************************************************)
(* urllib.parse.urlparse, restricted to what analyze_url reads: scheme,    *)
(* netloc, path, and the ValueError raised for an unbalanced '[' or ']'    *)
(* in the network location.  Inputs carry no whitespace, control           *)
(* characters, ';' parameters or non-ASCII characters.                     *)
(***************************************************************************)
IsSchemeChar(c) == IsAlpha(c) \/ IsDigit(c) \/ Contains("+-.", c)

\* first position >= from holding one of the characters of set, else Len(s)+1
FirstOf(s, set, from) ==
    LET at == {i \in from..Len(s) : Contains(set, CharAt(s, i))}
    IN  IF at = {} THEN Len(s) + 1 ELSE CHOOSE i \in at : \A j \in at : i <= j

urlparse(u) ==
    LET i         == Find(u, ":")
        hasScheme == /\ i > 1
                     /\ IsAlpha(CharAt(u, 1))
                     /\ \A j \in 1..(i - 1) : IsSchemeChar(CharAt(u, j))
        scheme    == IF hasScheme THEN Lower(SubSeq(u, 1, i - 1)) ELSE ""
        rest      == IF hasScheme THEN Slice(u, i + 1) ELSE u
        hasNetloc == StartsWith(rest, "//")
        delim     == FirstOf(rest, "/?#", 3)
        netloc    == IF hasNetloc THEN SubSeq(rest, 3, delim - 1) ELSE ""
        rest2     == IF hasNetloc THEN Slice(rest, delim) ELSE rest
        path      == SubSeq(rest2, 1, FirstOf(rest2, "?#", 1) - 1)
        raises    == /\ hasNetloc
                     /\ Contains(netloc, "[") # Contains(netloc, "]")
    IN  [ raises |-> raises, scheme |-> scheme, netloc |-> netloc,
          path |-> path ]

(***************************************************************************)
(* re.match(r"\d{1,3}\.\d{1,3}\.\d{1,3}\.\d{1,3}", domain): the pattern is  *)
(* matched at the start of the string, the end is not anchored.            *)
(***************************************************************************)
RECURSIVE MatchGroups(_, _, _)
MatchGroups(s, pos, k) ==
    \E n \in 1..3 :
        /\ pos + n - 1 <= Len(s)
        /\ \A j \in pos..(pos + n - 1) : IsDigit(CharAt(s, j))
        /\ IF k = 1 THEN TRUE
           ELSE /\ pos + n <= Len(s)
                /\ CharAt(s, pos + n) = "."
                /\ MatchGroups(s, pos + n + 1, k - 1)

re_match_ip(domain) == MatchGroups(domain, 1, 4)

(***************************************************************************)
(* Levenshtein.distance: unit-cost insert, delete, substitute, computed    *)
(* row by row over the dynamic-programming table.                          *)
(***************************************************************************)
Min2(a, b) == IF a <= b THEN a ELSE b

MinOf(S) == CHOOSE x \in S : \A y \in S : x <= y

\* Row i of the distance table from row i - 1 (prev) and ch = a[i].
\* row[j + 1] is the distance between a[1..i] and b[1..j]: base[k + 1] is
\* the cheaper of deleting ch and of substituting it for b[k], and j - k
\* characters of b are inserted after position k.
LevRow(prev, ch, b) ==
    LET base == [k \in 1..(Len(b) + 1) |->
                    IF k = 1 THEN prev[1] + 1
                    ELSE Min2(prev[k] + 1,
                              prev[k - 1]
                                  + (IF CharAt(b, k - 1) = ch THEN 0 ELSE 1))]
                    \o <<>>
    IN  [j \in 1..(Len(b) + 1) |-> MinOf({base[k] + (j - k) : k \in 1..j})]
            \o <<>>

\* the rows for a[i], a[i + 1], ...; prev is the row before a[i].  The
\* test on prev has the row evaluated before the next one is built on it.
RECURSIVE LevRows(_, _, _, _)
LevRows(a, b, i, prev) ==
    IF i > Len(a) \/ prev = <<>> THEN prev
    ELSE LevRows(a, b, i + 1, LevRow(prev, CharAt(a, i), b))

levenshtein_distance(a, b) ==
    LevRows(a, b, 1, [j \in 1..(Len(b) + 1) |-> j - 1])[Len(b) + 1]

(***************************************************************************)
(* Reasons.  A reason string is modelled by the rule that produced it and  *)
(* the value interpolated into it ("" when the text is fixed; the text of  *)
(* a caught exception is not modelled).                                    *)
(***************************************************************************)
Reason(rule, arg) == [rule |-> rule, arg |-> arg]

Result(score, reasons) == [score |-> score, reasons |-> reasons]

\* score += SCORE_WEIGHTS[w]; reasons.append(r)
Add(acc, w, r) == Result(acc.score + w, Append(acc.reasons, r))

InList(x, list) == \E i \in 1..Len(list) : list[i] = x

(***************************************************************************)
(* analyze_url                                                             *)
(***************************************************************************)
\* domain = parsed_url.netloc.lower(), with a leading "www." removed
NormalizedDomain(netloc) ==
    LET domain == Lower(netloc)
    IN  IF StartsWith(domain, "www.") THEN Slice(domain, 5) ELSE domain

\* step 5: the loop over KNOWN_SAFE_DOMAINS with its break.  hits are the
\* entries at distance 1 or 2, in list order; the loop stops at the first.
TypoLoop_nobreak(acc, domain) ==
    LET main_domain_part == LastTwoLabels(domain)
        hits == SelectSeq(KNOWN_SAFE_DOMAINS,
                    LAMBDA safe_domain :
                        levenshtein_distance(main_domain_part, safe_domain)
                            \in {1, 2})
    IN  Result(acc.score + Len(hits) * SCORE_WEIGHTS.TYPOSQUATTING,
               acc.reasons \o [i \in 1..Len(hits) |->
                                  Reason("TYPOSQUATTING", hits[i])])

TypoLoop(acc, domain) ==
    LET main_domain_part == LastTwoLabels(domain)
        hits == SelectSeq(KNOWN_SAFE_DOMAINS,
                    LAMBDA safe_domain :
                        levenshtein_distance(main_domain_part, safe_domain)
                            \in {1, 2})
    IN  IF hits = <<>> THEN acc
        ELSE Add(acc, SCORE_WEIGHTS.TYPOSQUATTING,
                 Reason("TYPOSQUATTING", Head(hits)))

\* step 6: the loop over SUSPICIOUS_KEYWORDS; url_lower is url.lower().
\* found are the keywords that occur, in list order; each adds a finding.
KeywordLoop_break(acc, url_lower) ==
    LET found == SelectSeq(SUSPICIOUS_KEYWORDS,
                     LAMBDA keyword : Contains(url_lower, keyword))
    IN  IF found = <<>> THEN acc
        ELSE Add(acc, SCORE_WEIGHTS.KEYWORD, Reason("KEYWORD", Head(found)))

KeywordLoop(acc, url_lower) ==
    LET found == SelectSeq(SUSPICIOUS_KEYWORDS,
                     LAMBDA keyword : Contains(url_lower, keyword))
    IN  Result(acc.score + Len(found) * SCORE_WEIGHTS.KEYWORD,
               acc.reasons \o [i \in 1..Len(found) |->
                                  Reason("KEYWORD", found[i])])

\* steps 2 to 8: the additive rules, in the order the code runs them
AdditiveRules(u, parsed_url, domain, s0) ==
    LET tld == "." \o LastLabel(domain)
        url_lower == Lower(u)
        s2  == IF re_match_ip(domain)
               THEN Add(s0, SCORE_WEIGHTS.IP_AS_DOMAIN,
                        Reason("IP_AS_DOMAIN", ""))
               ELSE s0
        s3  == IF parsed_url.scheme # "https"
               THEN Add(s2, SCORE_WEIGHTS.NO_HTTPS, Reason("NO_HTTPS", ""))
               ELSE s2
        s4  == IF tld \in SUSPICIOUS_TLDS
               THEN Add(s3, SCORE_WEIGHTS.SUSPICIOUS_TLD,
                        Reason("SUSPICIOUS_TLD", tld))
               ELSE s3
        s5  == TypoLoop(s4, domain)
        s6  == KeywordLoop(s5, url_lower)
        s7  == IF Len(u) > 75
               THEN Add(s6, SCORE_WEIGHTS.LONG_URL, Reason("LONG_URL", ""))
               ELSE s6
        s8  == IF Contains(parsed_url.path, "@")
               THEN Add(s7, SCORE_WEIGHTS.AT_SYMBOL, Reason("AT_SYMBOL", ""))
               ELSE s7
    IN  s8

\* the whitelist loop: domain.endswith(safe_domain) for some entry
IsSafeDomain_exact(domain) == InList(domain, KNOWN_SAFE_DOMAINS)

IsSafeDomain(domain) ==
    \E i \in 1..Len(KNOWN_SAFE_DOMAINS) :
        EndsWith(domain, KNOWN_SAFE_DOMAINS[i])

\* the blacklist branch: score = 100, one reason, return
BlacklistBranch_noreturn(u, parsed_url, domain) ==
    AdditiveRules(u, parsed_url, domain,
                  Result(SCORE_WEIGHTS.KNOWN_PHISHING,
                         <<Reason("KNOWN_PHISHING", domain)>>))

BlacklistBranch(u, parsed_url, domain) ==
    Result(SCORE_WEIGHTS.KNOWN_PHISHING, <<Reason("KNOWN_PHISHING", domain)>>)

\* the whitelist branch: return 0 and the one fixed reason
WhitelistBranch_noreturn(u, parsed_url, domain) ==
    AdditiveRules(u, parsed_url, domain,
                  Result(0, <<Reason("KNOWN_SAFE", "")>>))

WhitelistBranch(u, parsed_url, domain) ==
    Result(0, <<Reason("KNOWN_SAFE", "")>>)

analyze_url(u) ==
    LET parsed_url == urlparse(u)
        domain     == NormalizedDomain(parsed_url.netloc)
    IN  IF parsed_url.raises
        THEN Result(0, <<Reason("URL_ERROR", "")>>)
        ELSE IF InList(domain, KNOWN_PHISHING_DOMAINS)
        THEN BlacklistBranch(u, parsed_url, domain)
        ELSE IF IsSafeDomain(domain)
        THEN WhitelistBranch(u, parsed_url, domain)
        ELSE AdditiveRules(u, parsed_url, domain, Result(0, <<>>))

(***************************************************************************)
(* analyze_content.  The GET and the HTML parse are external; what they    *)
(* deliver is an outcome chosen by the environment.                        *)
(***************************************************************************)
RequestExceptions == {"ConnectionError", "Timeout", "HTTPError"}

OtherExceptions == {"ParserError"}

Responses == {"PageWithPasswordInput", "PageWithoutPasswordInput"}

FetchOutcomes == RequestExceptions \cup OtherExceptions \cup Responses

analyze_content_penalize(outcome) ==
    IF outcome \in RequestExceptions
    THEN Result(SCORE_WEIGHTS.NO_HTTPS, <<Reason("FETCH_ERROR", "")>>)
    ELSE IF outcome \notin Responses
    THEN Result(0, <<Reason("CONTENT_ERROR", "")>>)
    ELSE IF outcome = "PageWithPasswordInput"
    THEN Add(Result(0, <<>>), SCORE_WEIGHTS.PASSWORD_FIELD,
             Reason("PASSWORD_FIELD", ""))
    ELSE Result(0, <<>>)

analyze_content(outcome) ==
    IF outcome \in RequestExceptions
    THEN Result(0, <<Reason("FETCH_ERROR", "")>>)
    ELSE IF outcome \notin Responses
    THEN Result(0, <<Reason("CONTENT_ERROR", "")>>)
    ELSE IF outcome = "PageWithPasswordInput"
    THEN Add(Result(0, <<>>), SCORE_WEIGHTS.PASSWORD_FIELD,
             Reason("PASSWORD_FIELD", ""))
    ELSE Result(0, <<>>)

(***************************************************************************)
(* main: verdict mapping and clamping                                      *)
(***************************************************************************)
\* min(total_score, 100)
Clamp_none(total_score) == total_score

Clamp(total_score) == IF total_score < 100 THEN total_score ELSE 100

\* the if / elif / else over final_score that selects the verdict line
Verdict_strict(score) ==
    IF score > 70 THEN "HIGH_RISK"
    ELSE IF score > 40 THEN "MODERATE"
    ELSE "SAFE"

Verdict(score) ==
    IF score >= 70 THEN "HIGH_RISK"
    ELSE IF score >= 40 THEN "MODERATE"
    ELSE "SAFE"

(***************************************************************************)
(* Inputs: the command line.  A URL is a scheme prefix, a network          *)
(* location and a tail, concatenated; the program sees only the string.    *)
(***************************************************************************)
PadLen == 55

RECURSIVE Filler(_)
Filler(n) ==
    IF n = 0 THEN ""
    ELSE IF n = 1 THEN "a"
    ELSE Filler(n \div 2) \o Filler(n - (n \div 2))

Prefixes == {"http://", "https://", "HTTPS://", ""}

Hosts ==
    { "mvdlstw.net", "www.MVDLSTW.net", "mvdlstw.net.evil.ru",
      "www.google.com", "shop.com.tw", "evilapple.com",
      "1.2.3.4", "1.2.3.4.xyz", "10.0.0.1.gogle.com",
      "googlle.com", "eom.tw", "gooogggle.com", "moigov.tw",
      "example.org", "login.bank.top", "[bad" }

Tails ==
    { "", "/login/Secure", "/a@b", "?next=a@b", "/" \o Filler(PadLen),
      "/verify/" \o Filler(PadLen) \o "@" }

Urls == { p \o h \o t : p \in Prefixes, h \in Hosts, t \in Tails }

ProgramName == "scam_detector.py"

CommandLines ==
    {<<ProgramName>>} \cup { <<ProgramName, u>> : u \in Urls }
        \cup {<<ProgramName, "http://eom.tw/login", "ignored">>}

(***************************************************************************)
(* Output lines                                                            *)
(***************************************************************************)
Line(kind, rule, arg, num) ==
    [kind |-> kind, rule |-> rule, arg |-> arg, num |-> num]

ReasonLines(reasons) ==
    [i \in 1..Len(reasons) |->
        Line("REASON", reasons[i].rule, reasons[i].arg, 0)]

(***************************************************************************)
(* The run of main, one step per stage                                     *)
(***************************************************************************)
Init ==
    /\ argv \in CommandLines
    /\ pc = "start"
    /\ url = ""
    /\ out = <<>>
    /\ url_score = -1
    /\ url_reasons = <<>>
    /\ content_score = -1
    /\ content_reasons = <<>>
    /\ fetch_outcome = "none"
    /\ fetches = 0
    /\ final_score = -1
    /\ verdict = "none"
    /\ exit_code = -1

\* len(sys.argv) < 2: usage message and sys.exit(1)
Usage ==
    /\ pc = "start"
    /\ Len(argv) < 2
    /\ out' = Append(out, Line("USAGE", "", "", 0))
    /\ exit_code' = 1
    /\ pc' = "exited"
    /\ UNCHANGED <<argv, url, url_score, url_reasons, content_score,
                   content_reasons, fetch_outcome, fetches, final_score,
                   verdict>>

\* url = sys.argv[1]; the echo line
ReadUrl ==
    /\ pc = "start"
    /\ Len(argv) >= 2
    /\ url' = argv[2]
    /\ out' = Append(out, Line("ECHO", "", argv[2], 0))
    /\ pc' = "analyze_url"
    /\ UNCHANGED <<argv, url_score, url_reasons, content_score,
                   content_reasons, fetch_outcome, fetches, final_score,
                   verdict, exit_code>>

\* url_score, url_reasons = analyze_url(url)
CallAnalyzeUrl ==
    /\ pc = "analyze_url"
    /\ LET r == analyze_url(url)
       IN  /\ url_score' = r.score
           /\ url_reasons' = r.reasons
    /\ pc' = "analyze_content"
    /\ UNCHANGED <<argv, url, out, content_score, content_reasons,
                   fetch_outcome, fetches, final_score, verdict, exit_code>>

\* content_score, content_reasons = analyze_content(url)
CallAnalyzeContent_skip ==
    /\ pc = "analyze_content"
    /\ IF url_score >= 100
       THEN /\ content_score' = 0
            /\ content_reasons' = <<>>
            /\ UNCHANGED <<fetch_outcome, fetches, out>>
       ELSE /\ \E outcome \in FetchOutcomes :
                  LET r == analyze_content(outcome)
                  IN  /\ fetch_outcome' = outcome
                      /\ content_score' = r.score
                      /\ content_reasons' = r.reasons
            /\ out' = Append(out, Line("FETCH_NOTICE", "", "", 0))
            /\ fetches' = fetches + 1
    /\ pc' = "report"
    /\ UNCHANGED <<argv, url, url_score, url_reasons, final_score, verdict,
                   exit_code>>

CallAnalyzeContent ==
    /\ pc = "analyze_content"
    /\ \E outcome \in FetchOutcomes :
          LET r == analyze_content(outcome)
          IN  /\ fetch_outcome' = outcome
              /\ content_score' = r.score
              /\ content_reasons' = r.reasons
    /\ out' = Append(out, Line("FETCH_NOTICE", "", "", 0))
    /\ fetches' = fetches + 1
    /\ pc' = "report"
    /\ UNCHANGED <<argv, url, url_score, url_reasons, final_score, verdict,
                   exit_code>>

\* total, clamp, result lines, verdict line; main returns
Report ==
    /\ pc = "report"
    /\ LET total_score == url_score + content_score
           all_reasons == url_reasons \o content_reasons
           final       == Clamp(total_score)
       IN  /\ final_score' = final
           /\ verdict' = Verdict(final)
           /\ out' = out
                  \o <<Line("HEADER", "", "", 0), Line("SCORE", "", "", final)>>
                  \o (IF all_reasons = <<>>
                      THEN <<Line("NO_FEATURES", "", "", 0)>>
                      ELSE <<Line("FEATURES_HEADER", "", "", 0)>>
                               \o ReasonLines(all_reasons))
                  \o <<Line("VERDICT", Verdict(final), "", 0)>>
    /\ exit_code' = 0
    /\ pc' = "done"
    /\ UNCHANGED <<argv, url, url_score, url_reasons, content_score,
                   content_reasons, fetch_outcome, fetches>>

Next == Usage \/ ReadUrl \/ CallAnalyzeUrl \/ CallAnalyzeContent \/ Report

Spec == Init /\ [][Next]_vars

(***************************************************************************)
(* Vocabulary of the properties                                            *)
(***************************************************************************)
LexicalDone == pc \in {"analyze_content", "report", "done"}

\* analyze_url has just returned
LexicalReturned == pc = "analyze_content"

ContentDone == pc \in {"report", "done"}

ParsesOk(u) == ~urlparse(u).raises

\* network location lower-cased, one leading "www." stripped
HostOf(u) ==
    LET h == Lower(urlparse(u).netloc)
    IN  IF Len(h) >= 4 /\ SubSeq(h, 1, 4) = "www." THEN SubSeq(h, 5, Len(h))
        ELSE h

Blacklisted(u) ==
    LET host == HostOf(u)
    IN  ParsesOk(u) /\ \E i \in 1..Len(KNOWN_PHISHING_DOMAINS) :
                           host = KNOWN_PHISHING_DOMAINS[i]

Whitelisted(u) ==
    LET host == HostOf(u)
    IN  /\ ParsesOk(u)
        /\ ~Blacklisted(u)
        /\ \E i \in 1..Len(KNOWN_SAFE_DOMAINS) :
              EndsWith(host, KNOWN_SAFE_DOMAINS[i])

Additive(u) == ParsesOk(u) /\ ~Blacklisted(u) /\ ~Whitelisted(u)

HasRule(reasons, rule) == \E i \in 1..Len(reasons) : reasons[i].rule = rule

RulesOf(reasons) == [i \in 1..Len(reasons) |-> reasons[i].rule]

CountKind(lines, kind) ==
    Cardinality({i \in 1..Len(lines) : lines[i].kind = kind})

FailedFetch == fetch_outcome \in RequestExceptions \cup OtherExceptions

\* C1: a URL whose normalized host equals a phishing-domain entry gets
\* lexical score 100 and exactly one reason, the blacklist reason; no
\* other lexical rule adds to the score or to the reasons.
C1_BlacklistShortCircuit ==
    (LexicalDone /\ Blacklisted(url)) =>
        /\ url_score = 100
        /\ url_reasons = <<Reason("KNOWN_PHISHING", HostOf(url))>>

C1_Witness ==
    /\ LexicalDone
    /\ Blacklisted(url)
    /\ urlparse(url).scheme # "https"
    /\ Contains(Lower(url), "verify")
    /\ Len(url) > 75
    /\ Contains(urlparse(url).path, "@")
    /\ url_score = 100

\* C2: a URL whose normalized host is not blacklisted and ends with a
\* safe-domain entry gets lexical score 0 and exactly one reason, the
\* trusted reason; a blacklisted host gets the blacklist result even when
\* it also ends with a safe-domain entry.
C2_WhitelistShortCircuit ==
    LexicalDone =>
        /\ Whitelisted(url) =>
              /\ url_score = 0
              /\ url_reasons = <<Reason("KNOWN_SAFE", "")>>
        /\ Blacklisted(url) => RulesOf(url_reasons) = <<"KNOWN_PHISHING">>

C2_Witness ==
    /\ LexicalDone
    /\ Whitelisted(url)
    /\ HostOf(url) = "shop.com.tw"
    /\ urlparse(url).scheme # "https"
    /\ Contains(Lower(url), "verify")
    /\ Len(url) > 75
    /\ Contains(urlparse(url).path, "@")
    /\ url_score = 0

\* C3: the final score is min(url_score + content_score, 100) and lies in
\* 0..100 under every content outcome; a blacklisted host always ends with
\* final score 100 and verdict HIGH_RISK.
C3_ClampedFinalScore ==
    pc = "done" =>
        /\ final_score = Min2(url_score + content_score, 100)
        /\ final_score \in 0..100
        /\ Blacklisted(url) => (final_score = 100 /\ verdict = "HIGH_RISK")

C3_Witness ==
    /\ pc = "done"
    /\ ~Blacklisted(url)
    /\ url_score + content_score > 100
    /\ fetch_outcome = "PageWithPasswordInput"
    /\ final_score = 100

\* C4: the verdict depends on the final score only: HIGH_RISK iff
\* final >= 70, MODERATE iff 40 <= final < 70, SAFE iff final < 40, for
\* every score in 0..100, and a finished run printed exactly one verdict.
C4_VerdictThresholds ==
    /\ \A f \in 0..100 :
          /\ (Verdict(f) = "HIGH_RISK") <=> (f >= 70)
          /\ (Verdict(f) = "MODERATE") <=> (40 <= f /\ f < 70)
          /\ (Verdict(f) = "SAFE") <=> (f < 40)
    /\ CountKind(out, "VERDICT") = (IF pc = "done" THEN 1 ELSE 0)
    /\ pc = "done" =>
          /\ (verdict = "HIGH_RISK") <=> (final_score >= 70)
          /\ (verdict = "MODERATE") <=> (40 <= final_score /\ final_score < 70)
          /\ (verdict = "SAFE") <=> (final_score < 40)
          /\ out[Len(out)] = Line("VERDICT", verdict, "", 0)

C4_Witness == pc = "done" /\ final_score = 40 /\ verdict = "MODERATE"

\* the weight the claims give to each rule
ClaimedWeight(rule) ==
    CASE rule = "IP_AS_DOMAIN" -> 30
      [] rule = "NO_HTTPS" -> 25
      [] rule = "SUSPICIOUS_TLD" -> 20
      [] rule = "TYPOSQUATTING" -> 40
      [] rule = "KEYWORD" -> 5
      [] rule = "LONG_URL" -> 10
      [] rule = "AT_SYMBOL" -> 20
      [] OTHER -> 0

RECURSIVE SumClaimed(_)
SumClaimed(rules) ==
    IF rules = <<>> THEN 0
    ELSE ClaimedWeight(Head(rules)) + SumClaimed(Tail(rules))

Only(cond, rule) == IF cond THEN <<rule>> ELSE <<>>

\* indices of the safe-domain entries at distance 1 or 2 of the main domain
TypoHits(u) ==
    LET main == LastTwoLabels(HostOf(u))
    IN  {i \in 1..Len(KNOWN_SAFE_DOMAINS) :
            levenshtein_distance(main, KNOWN_SAFE_DOMAINS[i]) \in {1, 2}}

KeywordsIn(u) ==
    LET lowered == Lower(u)
    IN  SelectSeq(SUSPICIOUS_KEYWORDS, LAMBDA k : Contains(lowered, k))

\* the rules that fire on u, in rule-evaluation order
FiredRules(u) ==
    LET host == HostOf(u)
        kws  == KeywordsIn(u)
    IN  Only(re_match_ip(host), "IP_AS_DOMAIN")
            \o Only(urlparse(u).scheme # "https", "NO_HTTPS")
            \o Only(("." \o LastLabel(host)) \in SUSPICIOUS_TLDS,
                    "SUSPICIOUS_TLD")
            \o Only(TypoHits(u) # {}, "TYPOSQUATTING")
            \o [i \in 1..Len(kws) |-> "KEYWORD"]
            \o Only(Len(u) > 75, "LONG_URL")
            \o Only(Contains(urlparse(u).path, "@"), "AT_SYMBOL")

KeywordArgs(reasons) ==
    LET kw == SelectSeq(reasons, LAMBDA r : r.rule = "KEYWORD")
    IN  [i \in 1..Len(kw) |-> kw[i].arg]

\* C5: for a URL that parses and is neither blacklisted nor whitelisted,
\* the lexical score that analyze_url returns is the sum of the weights
\* of the rules that fired (5 for every keyword found, no cap), there is
\* one reason per fired rule, and the reasons are in the order IP,
\* transport, TLD, typosquatting, keywords in keyword-list order, length,
\* at-symbol.
C5_AdditiveScoreAndOrder ==
    (LexicalReturned /\ Additive(url)) =>
        LET fired == FiredRules(url)
        IN  /\ RulesOf(url_reasons) = fired
            /\ KeywordArgs(url_reasons) = KeywordsIn(url)
            /\ url_score = SumClaimed(fired)

C5_Witness ==
    /\ LexicalReturned
    /\ Additive(url)
    /\ url_score = 25 + 20 + 5 + 5
    /\ RulesOf(url_reasons) = <<"NO_HTTPS", "SUSPICIOUS_TLD", "KEYWORD", "KEYWORD">>
    /\ KeywordArgs(url_reasons) = <<"login", "secure">>

\* C6: a failure inside an analyzer is turned into exactly one error
\* reason and adds no score: a URL that does not parse gives lexical
\* (0, one reason); a failed fetch or a failed page parse gives content
\* (0, one reason); the final score is then min(lexical score, 100), a
\* verdict is printed and the exit code is 0.
C6_ErrorsRecovered ==
    /\ (LexicalDone /\ ~ParsesOk(url)) =>
          (url_score = 0 /\ RulesOf(url_reasons) = <<"URL_ERROR">>)
    /\ (ContentDone /\ FailedFetch) =>
          /\ content_score = 0
          /\ Len(content_reasons) = 1
          /\ content_reasons[1].rule \in {"FETCH_ERROR", "CONTENT_ERROR"}
    /\ (pc = "done" /\ FailedFetch) => final_score = Min2(url_score, 100)
    /\ pc = "done" =>
          /\ exit_code = 0
          /\ CountKind(out, "VERDICT") = 1
    /\ Len(argv) >= 2 => exit_code \in {-1, 0}

C6_Witness ==
    /\ pc = "done"
    /\ ~ParsesOk(url)
    /\ fetch_outcome = "Timeout"
    /\ final_score = 0
    /\ exit_code = 0

ReasonLinesOf(lines) == SelectSeq(lines, LAMBDA l : l.kind = "REASON")

\* C7: the run has one fixed order.  Without a URL argument: usage, exit
\* code 1, no analyzer runs.  With one: the echo is the first line, the
\* lexical result exists before the fetch starts, the fetch is attempted
\* exactly once whatever the lexical score, the score line appears only
\* after both analyzers returned, the printed reasons are the lexical
\* ones followed by the content ones, and the verdict is the last line.
C7_FixedOrder ==
    /\ Len(argv) < 2 =>
          /\ pc \in {"start", "exited"}
          /\ url_score = -1 /\ content_score = -1 /\ fetches = 0
          /\ pc = "exited" =>
                (out = <<Line("USAGE", "", "", 0)>> /\ exit_code = 1)
    /\ Len(argv) >= 2 =>
          /\ pc # "exited"
          /\ out # <<>> => out[1] = Line("ECHO", "", argv[2], 0)
          /\ LexicalDone => CountKind(out, "ECHO") = 1
    /\ fetches > 0 => url_score >= 0
    /\ fetches = (IF ContentDone THEN 1 ELSE 0)
    /\ CountKind(out, "FETCH_NOTICE") = fetches
    /\ CountKind(out, "SCORE") > 0 =>
          (url_score >= 0 /\ content_score >= 0 /\ fetches = 1)
    /\ pc = "done" =>
          /\ CountKind(out, "SCORE") = 1
          /\ ReasonLinesOf(out) = ReasonLines(url_reasons \o content_reasons)
          /\ out[Len(out)].kind = "VERDICT"
          /\ \A i, j \in 1..Len(out) :
                (out[i].kind = "SCORE" /\ out[j].kind \in {"ECHO", "FETCH_NOTICE"})
                    => j < i

C7_Witness ==
    /\ pc = "done"
    /\ url_score = 100
    /\ fetches = 1
    /\ RulesOf(url_reasons \o content_reasons) = <<"KNOWN_PHISHING", "PASSWORD_FIELD">>

NonTypoRules(reasons) ==
    RulesOf(SelectSeq(reasons, LAMBDA r : r.rule # "TYPOSQUATTING"))

TypoReasons(reasons) == SelectSeq(reasons, LAMBDA r : r.rule = "TYPOSQUATTING")

Least(S) == CHOOSE i \in S : \A j \in S : i <= j

\* C8: for a host that is neither blacklisted nor whitelisted, the
\* typosquatting rule adds exactly 40 and one reason when some safe-domain
\* entry is at Levenshtein distance 1 or 2 of the host's last two labels,
\* and nothing otherwise; the reason names the first such entry in list
\* order even when a later entry is closer.
C8_TyposquatOnceFirstMatch ==
    (LexicalReturned /\ Additive(url)) =>
        LET hits == TypoHits(url)
        IN  IF hits # {}
            THEN /\ TypoReasons(url_reasons) =
                       <<Reason("TYPOSQUATTING", KNOWN_SAFE_DOMAINS[Least(hits)])>>
                 /\ url_score - SumClaimed(NonTypoRules(url_reasons)) = 40
            ELSE /\ TypoReasons(url_reasons) = <<>>
                 /\ url_score - SumClaimed(NonTypoRules(url_reasons)) = 0

C8_Witness ==
    /\ LexicalReturned
    /\ Additive(url)
    /\ LastTwoLabels(HostOf(url)) = "eom.tw"
    /\ levenshtein_distance("eom.tw", "gov.tw") = 2
    /\ levenshtein_distance("eom.tw", "com.tw") = 1
    /\ TypoReasons(url_reasons) = <<Reason("TYPOSQUATTING", "gov.tw")>>
    /\ url_score = 25 + 40

\* the whole string is four groups of 1 to 3 digits separated by dots
DottedQuad(h) ==
    /\ Len(h) > 0
    /\ \A j \in 1..Len(h) : IsDigit(CharAt(h, j)) \/ CharAt(h, j) = "."
    /\ Cardinality({j \in 1..Len(h) : CharAt(h, j) = "."}) = 3
    /\ MatchGroups(h, 1, 4)
    /\ Len(h) - RFind(h, ".") \in 1..3

\* C9: the IP-literal rule fires only for a host that is a dotted quad,
\* and never together with the suspicious-TLD rule or the typosquatting
\* rule on the same host.
C9_IpExcludesTldAndTypo ==
    (LexicalDone /\ HasRule(url_reasons, "IP_AS_DOMAIN")) =>
        /\ DottedQuad(HostOf(url))
        /\ ~HasRule(url_reasons, "SUSPICIOUS_TLD")
        /\ ~HasRule(url_reasons, "TYPOSQUATTING")

\* C10: a run on a whitelisted host ends with final score 0 or 30 and
\* verdict SAFE under every content outcome, a page with a password input
\* included; it never shows MODERATE or HIGH_RISK.
C10_WhitelistedAlwaysSafe ==
    (Len(argv) >= 2 /\ Whitelisted(argv[2])) =>
        /\ verdict \in {"none", "SAFE"}
        /\ ~\E i \in 1..Len(out) :
              out[i].kind = "VERDICT" /\ out[i].rule # "SAFE"
        /\ pc = "done" => (final_score \in {0, 30} /\ verdict = "SAFE")

C10_Witness ==
    /\ pc = "done"
    /\ Whitelisted(url)
    /\ fetch_outcome = "PageWithPasswordInput"
    /\ urlparse(url).scheme # "https"
    /\ Contains(urlparse(url).path, "@")
    /\ final_score = 30
    /\ verdict = "SAFE"

====
